---- MODULE Spec2Model ----
(***************************************************************************)
(* Website analytics: users seen on both days who saw a new product on     *)
(* day two.  Model of src/app.py (streaming two-pass implementation) and   *)
(* src/main.py (load-both implementation).                                 *)
(*                                                                         *)
(* A string is a sequence of code points (97 = "a", 32 = " ", 10 = LF).    *)
(* A CSV row, as csv.reader yields it, is a sequence of strings; a quoted  *)
(* field may contain line feeds, so one row may span several lines of the  *)
(* file.  A file is the sequence of its rows.                              *)
(***************************************************************************)
EXTENDS Integers, Sequences, FiniteSets

VARIABLES
    exists1, exists2,   \* args.day1.exists(), args.day2.exists()
    day1, day2,         \* the rows of the two input files
    args_output,        \* args.output: "stdout" (None) or "file"
    pc,                 \* position in app.py main
    checked,            \* which existence checks have been performed
    h1, h2,             \* the two input file handles
    i1, i2,             \* row_num of the last row read in each pass
    line_num,           \* physical lines consumed by the current csv.reader
    user_to_products,   \* Day1Index under construction / completed
    result,             \* result set of find_target_users
    ids,                \* write_output: sorted ids still to be written
    hout,               \* the output file handle
    out,                \* text written to the output
    error,              \* the error the run ended with
    exit_code,          \* process exit status (-1 while running)
    run, first,         \* run counter and the first run's outcome
    m_pc,               \* position in main.py main
    m_visits,           \* main.py: the dicts day1 (m_visits[1]) and day2 (m_visits[2])
    m_i,                \* main.py: rows the current csv.reader has yielded
    m_k,                \* main.py: position of the current for loop of main
    result_users,       \* main.py: the list result_users
    m_out,              \* main.py: text printed
    m_error             \* main.py: the exception the run ended with

vars == <<exists1, exists2, day1, day2, args_output, pc, checked, h1, h2, i1, i2,
          line_num, user_to_products, result, ids, hout, out, error, exit_code,
          run, first, m_pc, m_visits, m_i, m_k, result_users, m_out, m_error>>

(***************************************************************************)
(* Bounds                                                                  *)
(***************************************************************************)
MaxRows == 2

(***************************************************************************)
(* Strings                                                                 *)
(***************************************************************************)
\* Code points str.strip() removes (str.isspace), Latin-1 range.
Whitespace == {9, 10, 11, 12, 13, 28, 29, 30, 31, 32, 133, 160}

LF == <<10>>

RECURSIVE lstrip(_)
lstrip(s) ==
    IF s = <<>> THEN s
    ELSE IF Head(s) \in Whitespace THEN lstrip(Tail(s)) ELSE s

RECURSIVE rstrip(_)
rstrip(s) ==
    IF s = <<>> THEN s
    ELSE IF s[Len(s)] \in Whitespace THEN rstrip(SubSeq(s, 1, Len(s) - 1)) ELSE s

strip(s) == rstrip(lstrip(s))

\* Python's str ordering: lexicographic by code point, a proper prefix first.
RECURSIVE StrLess(_, _)
StrLess(s, t) ==
    IF t = <<>> THEN FALSE
    ELSE IF s = <<>> THEN TRUE
    ELSE IF Head(s) # Head(t) THEN Head(s) < Head(t)
    ELSE StrLess(Tail(s), Tail(t))

RECURSIVE InsertSorted(_, _)
InsertSorted(x, seq) ==
    IF seq = <<>> THEN <<x>>
    ELSE IF StrLess(Head(seq), x) THEN <<Head(seq)>> \o InsertSorted(x, Tail(seq))
    ELSE <<x>> \o seq

\* Variant of sorted: the ids are left in the order the set yielded them.
sorted_AsIterated(seq) == seq

RECURSIVE sorted(_)
sorted(seq) ==
    IF seq = <<>> THEN <<>>
    ELSE InsertSorted(Head(seq), sorted(Tail(seq)))

\* The orders in which iterating a Python set may yield its members.
IterationOrders(S) ==
    {f \in [1..Cardinality(S) -> S] : \A i, j \in DOMAIN f : i # j => f[i] # f[j]}

(***************************************************************************)
(* csv.reader                                                              *)
(***************************************************************************)
RECURSIVE CountLF(_)
CountLF(s) ==
    IF s = <<>> THEN 0
    ELSE (IF Head(s) = 10 THEN 1 ELSE 0) + CountLF(Tail(s))

RECURSIVE FieldsLF(_)
FieldsLF(row) ==
    IF row = <<>> THEN 0 ELSE CountLF(Head(row)) + FieldsLF(Tail(row))

\* Physical lines of the file one row occupies: line feeds inside quoted
\* fields continue the record on the next line.
NLines(row) == 1 + FieldsLF(row)

(***************************************************************************)
(* Input universe                                                          *)
(***************************************************************************)
RowAP   == << <<97>>, <<112>>, <<116>> >>                 \* a,p,t
RowAQws == << <<32, 97>>, <<113, 32>>, <<116>> >>         \* " a","q ",t
RowBPml == << <<98>>, <<112>>, <<116, 10, 116>> >>        \* b,p,"t<LF>t"
RowBQws == << <<98, 9>>, <<113>>, <<116>> >>              \* "b<TAB>",q,t
RowBlankUser == << <<32>>, <<112>>, <<116>> >>            \* " ",p,t
RowBlankProd == << <<98>>, <<9>>, <<116>> >>              \* b,"<TAB>",t
RowShort == << <<97>>, <<112>> >>                         \* a,p

Day1Rows == {RowAP, RowAQws, RowBPml, RowBlankUser, RowBlankProd, RowShort}
Day2Rows == {RowAP, RowAQws, RowBQws, RowBlankUser, RowBlankProd, RowShort}

SeqsUpTo(S, n) == UNION {[1..k -> S] : k \in 0..n}

(***************************************************************************)
(* app.py: per-row bodies of the two passes                                *)
(***************************************************************************)
EmptyIndex == [u \in {} |-> {}]

\* Variant of IndexRow: product_id is stored as read, without strip().
IndexRow_RawProduct(index, row) ==
    LET user_id == strip(row[1])
        product_id == row[2]
    IN  IF user_id = <<>> \/ strip(product_id) = <<>> THEN index
        ELSE [u \in DOMAIN index \cup {user_id} |->
                 IF u = user_id
                 THEN (IF u \in DOMAIN index THEN index[u] ELSE {}) \cup {product_id}
                 ELSE index[u]]

\* Variant of IndexRow: a fresh set for every row ("if s is None" dropped).
IndexRow_Overwrite(index, row) ==
    LET user_id == strip(row[1])
        product_id == strip(row[2])
    IN  IF user_id = <<>> \/ product_id = <<>> THEN index
        ELSE [u \in DOMAIN index \cup {user_id} |->
                 IF u = user_id THEN {product_id} ELSE index[u]]

\* build_day1_index, loop body for a three-field row
IndexRow(index, row) ==
    LET user_id == strip(row[1])
        product_id == strip(row[2])
    IN  IF user_id = <<>> \/ product_id = <<>> THEN index
        ELSE [u \in DOMAIN index \cup {user_id} |->
                 IF u = user_id
                 THEN (IF u \in DOMAIN index THEN index[u] ELSE {}) \cup {product_id}
                 ELSE index[u]]

\* Variant of CompareRow: the index is looked up with the user_id as read.
CompareRow_RawUser(day1_index, res, row) ==
    LET user_id == row[1]
        product_id == strip(row[2])
    IN  IF strip(user_id) = <<>> \/ product_id = <<>> THEN res
        ELSE IF user_id \notin DOMAIN day1_index THEN res
        ELSE IF user_id \in res THEN res
        ELSE IF product_id \notin day1_index[user_id] THEN res \cup {user_id}
        ELSE res

\* Variant of CompareRow: only a blank user_id is skipped.
CompareRow_BlankProductKept(day1_index, res, row) ==
    LET user_id == strip(row[1])
        product_id == strip(row[2])
    IN  IF user_id = <<>> THEN res
        ELSE IF user_id \notin DOMAIN day1_index THEN res
        ELSE IF user_id \in res THEN res
        ELSE IF product_id \notin day1_index[user_id] THEN res \cup {user_id}
        ELSE res

\* Variant of CompareRow: "if result:" for "if user_id in result:".
CompareRow_SkipWhenAny(day1_index, res, row) ==
    LET user_id == strip(row[1])
        product_id == strip(row[2])
    IN  IF user_id = <<>> \/ product_id = <<>> THEN res
        ELSE IF user_id \notin DOMAIN day1_index THEN res
        ELSE IF res # {} THEN res
        ELSE IF product_id \notin day1_index[user_id] THEN res \cup {user_id}
        ELSE res

\* find_target_users, loop body for a three-field row
CompareRow(day1_index, res, row) ==
    LET user_id == strip(row[1])
        product_id == strip(row[2])
    IN  IF user_id = <<>> \/ product_id = <<>> THEN res
        ELSE IF user_id \notin DOMAIN day1_index THEN res
        ELSE IF user_id \in res THEN res
        ELSE IF product_id \notin day1_index[user_id] THEN res \cup {user_id}
        ELSE res

\* The same bodies folded over a whole file: the function's return value, or
\* the ValueError it raises at the first row without three fields.
RECURSIVE BuildFrom(_, _, _)
BuildFrom(rows, n, index) ==
    IF n > Len(rows) THEN [raised |-> FALSE, line |-> 0, val |-> index]
    ELSE IF Len(rows[n]) # 3 THEN [raised |-> TRUE, line |-> n, val |-> index]
    ELSE BuildFrom(rows, n + 1, IndexRow(index, rows[n]))

build_day1_index(rows) == BuildFrom(rows, 1, EmptyIndex)

RECURSIVE FindFrom(_, _, _, _)
FindFrom(day1_index, rows, n, res) ==
    IF n > Len(rows) THEN [raised |-> FALSE, line |-> 0, val |-> res]
    ELSE IF Len(rows[n]) # 3 THEN [raised |-> TRUE, line |-> n, val |-> res]
    ELSE FindFrom(day1_index, rows, n + 1, CompareRow(day1_index, res, rows[n]))

find_target_users(day1_index, rows) == FindFrom(day1_index, rows, 1, {})

NoError == [kind |-> "none", file |-> 0, line |-> 0, got |-> 0]
MissingFile(n) == [kind |-> "missing", file |-> n, line |-> 0, got |-> 0]
ValueError(n, row_num, row) ==
    [kind |-> "format", file |-> n, line |-> row_num, got |-> Len(row)]

(***************************************************************************)
(* Initial states                                                          *)
(***************************************************************************)
\* A defaultdict(set): its keys in insertion order, and the set at each key.
EmptyDict == [order |-> <<>>, at |-> [u \in {} |-> {}]]

\* app.py at the start of main, after parse_args
AppStart ==
    /\ pc = "check1"
    /\ checked = {}
    /\ h1 = "unopened"
    /\ h2 = "unopened"
    /\ i1 = 0
    /\ i2 = 0
    /\ line_num = 0
    /\ user_to_products = EmptyIndex
    /\ result = {}
    /\ ids = <<>>
    /\ hout = "unopened"
    /\ out = <<>>
    /\ error = NoError
    /\ exit_code = -1

FirstRun ==
    /\ run = 1
    /\ first = [error |-> NoError, out |-> <<>>, exit_code |-> -1]

\* main.py at the start of main; from "idle" it never runs
MainPyAt(at) ==
    /\ m_pc = at
    /\ m_visits = [n \in {1, 2} |-> EmptyDict]
    /\ m_i = 0
    /\ m_k = 0
    /\ result_users = <<>>
    /\ m_out = <<>>
    /\ m_error = "none"

InitWith(U1, U2, Outputs) ==
    /\ exists1 \in BOOLEAN
    /\ exists2 \in BOOLEAN
    /\ day1 \in (IF exists1 THEN SeqsUpTo(U1, MaxRows) ELSE {<<>>})
    /\ day2 \in (IF exists2 THEN SeqsUpTo(U2, MaxRows) ELSE {<<>>})
    /\ args_output \in Outputs
    /\ AppStart
    /\ FirstRun
    /\ MainPyAt("idle")

Init == InitWith(Day1Rows, Day2Rows, {"stdout", "file"})

(***************************************************************************)
(* app.py main                                                             *)
(***************************************************************************)
inputs == <<exists1, exists2, day1, day2, args_output>>
runs == <<run, first>>
mainpy == <<m_pc, m_visits, m_i, m_k, result_users, m_out, m_error>>
app == <<pc, checked, h1, h2, i1, i2, line_num, user_to_products, result, ids,
         hout, out, error, exit_code>>

CheckDay1 ==
    /\ pc = "check1"
    /\ checked' = checked \cup {1}
    /\ IF exists1
       THEN pc' = "check2" /\ UNCHANGED <<error, exit_code>>
       ELSE pc' = "exit" /\ error' = MissingFile(1) /\ exit_code' = 2
    /\ UNCHANGED <<inputs, runs, mainpy, h1, h2, i1, i2, line_num, user_to_products,
                   result, ids, hout, out>>

CheckDay2 ==
    /\ pc = "check2"
    /\ checked' = checked \cup {2}
    /\ IF exists2
       THEN pc' = "build" /\ UNCHANGED <<error, exit_code>>
       ELSE pc' = "exit" /\ error' = MissingFile(2) /\ exit_code' = 2
    /\ UNCHANGED <<inputs, runs, mainpy, h1, h2, i1, i2, line_num, user_to_products,
                   result, ids, hout, out>>

OpenDay1 ==
    /\ pc = "build"
    /\ user_to_products' = EmptyIndex
    /\ h1' = "open"
    /\ line_num' = 0
    /\ pc' = "day1"
    /\ UNCHANGED <<inputs, runs, mainpy, checked, h2, i1, i2, result, ids, hout, out,
                   error, exit_code>>

Day1Row ==
    /\ pc = "day1"
    /\ i1 < Len(day1)
    /\ Len(day1[i1 + 1]) = 3
    /\ i1' = i1 + 1
    /\ line_num' = line_num + NLines(day1[i1 + 1])
    /\ user_to_products' = IndexRow(user_to_products, day1[i1 + 1])
    /\ UNCHANGED <<inputs, runs, mainpy, pc, checked, h1, h2, i2, result, ids, hout, out,
                   error, exit_code>>

Day1Malformed ==
    /\ pc = "day1"
    /\ i1 < Len(day1)
    /\ Len(day1[i1 + 1]) # 3
    /\ i1' = i1 + 1
    /\ line_num' = line_num + NLines(day1[i1 + 1])
    /\ error' = ValueError(1, i1 + 1, day1[i1 + 1])
    /\ h1' = "closed"
    /\ exit_code' = 1
    /\ pc' = "exit"
    /\ UNCHANGED <<inputs, runs, mainpy, checked, h2, i2, user_to_products, result, ids,
                   hout, out>>

\* Variant of CloseDay1: the file is opened without "with" and never closed.
CloseDay1_Leak ==
    /\ pc = "day1"
    /\ i1 = Len(day1)
    /\ pc' = "find"
    /\ UNCHANGED <<inputs, runs, mainpy, checked, h1, h2, i1, i2, line_num,
                   user_to_products, result, ids, hout, out, error, exit_code>>

\* the reader is exhausted: the with block of build_day1_index is left
CloseDay1 ==
    /\ pc = "day1"
    /\ i1 = Len(day1)
    /\ h1' = "closed"
    /\ pc' = "find"
    /\ UNCHANGED <<inputs, runs, mainpy, checked, h2, i1, i2, line_num, user_to_products,
                   result, ids, hout, out, error, exit_code>>

OpenDay2 ==
    /\ pc = "find"
    /\ result' = {}
    /\ h2' = "open"
    /\ line_num' = 0
    /\ pc' = "day2"
    /\ UNCHANGED <<inputs, runs, mainpy, checked, h1, i1, i2, user_to_products, ids, hout,
                   out, error, exit_code>>

Day2Row ==
    /\ pc = "day2"
    /\ i2 < Len(day2)
    /\ Len(day2[i2 + 1]) = 3
    /\ i2' = i2 + 1
    /\ line_num' = line_num + NLines(day2[i2 + 1])
    /\ result' = CompareRow(user_to_products, result, day2[i2 + 1])
    /\ UNCHANGED <<inputs, runs, mainpy, pc, checked, h1, h2, i1, user_to_products, ids,
                   hout, out, error, exit_code>>

Day2Malformed ==
    /\ pc = "day2"
    /\ i2 < Len(day2)
    /\ Len(day2[i2 + 1]) # 3
    /\ i2' = i2 + 1
    /\ line_num' = line_num + NLines(day2[i2 + 1])
    /\ error' = ValueError(2, i2 + 1, day2[i2 + 1])
    /\ h2' = "closed"
    /\ exit_code' = 1
    /\ pc' = "exit"
    /\ UNCHANGED <<inputs, runs, mainpy, checked, h1, i1, user_to_products, result, ids,
                   hout, out>>

CloseDay2 ==
    /\ pc = "day2"
    /\ i2 = Len(day2)
    /\ h2' = "closed"
    /\ pc' = "output"
    /\ UNCHANGED <<inputs, runs, mainpy, checked, h1, i1, i2, line_num, user_to_products,
                   result, ids, hout, out, error, exit_code>>

\* main lines 127-132 up to the start of write_output's loop: the output is
\* opened (a file) or taken (stdout), and sorted() consumes the set in
\* whatever order it iterates.
BeginOutput ==
    /\ pc = "output"
    /\ hout' = IF args_output = "file" THEN "open" ELSE "stdout"
    /\ \E order \in IterationOrders(result) : ids' = sorted(order)
    /\ pc' = "write"
    /\ UNCHANGED <<inputs, runs, mainpy, checked, h1, h2, i1, i2, line_num,
                   user_to_products, result, out, error, exit_code>>

WriteLine ==
    /\ pc = "write"
    /\ ids # <<>>
    /\ out' = out \o Head(ids) \o LF
    /\ ids' = Tail(ids)
    /\ UNCHANGED <<inputs, runs, mainpy, pc, checked, h1, h2, i1, i2, line_num,
                   user_to_products, result, hout, error, exit_code>>

Return ==
    /\ pc = "write"
    /\ ids = <<>>
    /\ hout' = IF hout = "open" THEN "closed" ELSE hout
    /\ exit_code' = 0
    /\ pc' = "exit"
    /\ UNCHANGED <<inputs, runs, mainpy, checked, h1, h2, i1, i2, line_num,
                   user_to_products, result, ids, out, error>>

Next ==
    \/ CheckDay1 \/ CheckDay2
    \/ OpenDay1 \/ Day1Row \/ Day1Malformed \/ CloseDay1
    \/ OpenDay2 \/ Day2Row \/ Day2Malformed \/ CloseDay2
    \/ BeginOutput \/ WriteLine \/ Return

Spec == Init /\ [][Next]_vars

(***************************************************************************)
(* Two runs of app.py on the same inputs                                   *)
(***************************************************************************)
Outcome == [error |-> error, out |-> out, exit_code |-> exit_code]

\* The program is started again on the same arguments and files: a new
\* process, whose state is that of any start of main.
Rerun ==
    /\ pc = "exit"
    /\ run = 1
    /\ run' = 2
    /\ first' = Outcome
    /\ pc' = "check1"
    /\ checked' = {}
    /\ h1' = "unopened"
    /\ h2' = "unopened"
    /\ i1' = 0
    /\ i2' = 0
    /\ line_num' = 0
    /\ user_to_products' = EmptyIndex
    /\ result' = {}
    /\ ids' = <<>>
    /\ hout' = "unopened"
    /\ out' = <<>>
    /\ error' = NoError
    /\ exit_code' = -1
    /\ UNCHANGED <<inputs, mainpy>>

TwiceDay1Rows == {RowAP, RowBPml, RowShort}
TwiceDay2Rows == {RowAQws, RowBQws, RowShort}

InitTwice == InitWith(TwiceDay1Rows, TwiceDay2Rows, {"stdout", "file"})

NextTwice == Next \/ Rerun

SpecTwice == InitTwice /\ [][NextTwice]_vars

(***************************************************************************)
(* Runs whose result set is any set of five ids, added in any order        *)
(***************************************************************************)
\* ids as strip() leaves them: no white space at either end; the last one
\* comes from a quoted CSV field that holds a line feed.
OutputIds == {<<97>>, <<66>>, <<97, 98>>, <<98>>, <<97, 10, 98>>}

\* Day one: every id visited p.  Day two: rows in which an id visits q.
OutputDay1 ==
    << << <<97>>, <<112>>, <<116>> >>, << <<66>>, <<112>>, <<116>> >>,
       << <<97, 98>>, <<112>>, <<116>> >>, << <<98>>, <<112>>, <<116>> >>,
       << <<97, 10, 98>>, <<112>>, <<116>> >> >>

OutputDay2Rows == {<<u, <<113>>, <<116>>>> : u \in OutputIds}

InitOutput ==
    /\ exists1 = TRUE
    /\ exists2 = TRUE
    /\ day1 \in {OutputDay1, <<RowShort>>}
    /\ day2 \in {<<RowShort>>} \cup UNION {IterationOrders(T) : T \in SUBSET OutputDay2Rows}
    /\ args_output \in {"stdout", "file"}
    /\ AppStart
    /\ FirstRun
    /\ MainPyAt("idle")

SpecOutput == InitOutput /\ [][Next]_vars


(***************************************************************************)
(* main.py                                                                 *)
(***************************************************************************)
\* visits[user_id].add(product_id) on a defaultdict(set)
Visit(d, user_id, product_id) ==
    [order |-> IF user_id \in DOMAIN d.at THEN d.order ELSE Append(d.order, user_id),
     at |-> [u \in DOMAIN d.at \cup {user_id} |->
                IF u = user_id
                THEN (IF u \in DOMAIN d.at THEN d.at[u] ELSE {}) \cup {product_id}
                ELSE d.at[u]]]

\* Variant of SawNewProduct: day1[user] - day2[user].
SawNewProduct_Reversed(d1, d2, user) ==
    user \in DOMAIN d2.at /\ d1.at[user] \ d2.at[user] # {}

\* user in day2 and day2[user] - day1[user] non-empty (user is a key of day1)
SawNewProduct(d1, d2, user) ==
    user \in DOMAIN d2.at /\ d2.at[user] \ d1.at[user] # {}

File(n) == IF n = 1 THEN day1 ELSE day2
Exists(n) == IF n = 1 THEN exists1 ELSE exists2
Loading == [load1 |-> 1, rows1 |-> 1, load2 |-> 2, rows2 |-> 2]
AfterLoad(n) == IF n = 1 THEN "load2" ELSE "compare"

\* load_visits up to the loop: open, csv.reader, next(reader)
SkipHeader ==
    /\ m_pc \in {"load1", "load2"}
    /\ LET n == Loading[m_pc]
       IN  IF ~Exists(n)
           THEN m_pc' = "error" /\ m_error' = "FileNotFoundError" /\ UNCHANGED m_i
           ELSE IF File(n) = <<>>
           THEN m_pc' = "error" /\ m_error' = "StopIteration" /\ UNCHANGED m_i
           ELSE /\ m_pc' = (IF n = 1 THEN "rows1" ELSE "rows2")
                /\ m_i' = 1
                /\ UNCHANGED m_error
    /\ UNCHANGED <<inputs, runs, app, m_visits, m_k, result_users, m_out>>

\* one iteration of load_visits' loop: unpack the row, add the visit
LoadRow ==
    /\ m_pc \in {"rows1", "rows2"}
    /\ LET n == Loading[m_pc]
           row == File(n)[m_i + 1]
       IN  /\ m_i < Len(File(n))
           /\ m_i' = m_i + 1
           /\ IF Len(row) # 3
              THEN m_pc' = "error" /\ m_error' = "ValueError" /\ UNCHANGED m_visits
              ELSE /\ m_visits' = [m_visits EXCEPT ![n] = Visit(@, row[1], row[2])]
                   /\ UNCHANGED <<m_pc, m_error>>
    /\ UNCHANGED <<inputs, runs, app, m_k, result_users, m_out>>

\* the reader is exhausted: the file is closed and visits returned
LoadDone ==
    /\ m_pc \in {"rows1", "rows2"}
    /\ m_i = Len(File(Loading[m_pc]))
    /\ m_pc' = AfterLoad(Loading[m_pc])
    /\ m_i' = 0
    /\ UNCHANGED <<inputs, runs, app, m_visits, m_k, result_users, m_out, m_error>>

\* one iteration of "for user in day1"
CompareUser ==
    /\ m_pc = "compare"
    /\ m_k < Len(m_visits[1].order)
    /\ m_k' = m_k + 1
    /\ LET user == m_visits[1].order[m_k + 1]
       IN  result_users' = IF SawNewProduct(m_visits[1], m_visits[2], user)
                           THEN Append(result_users, user)
                           ELSE result_users
    /\ UNCHANGED <<inputs, runs, app, m_pc, m_visits, m_i, m_out, m_error>>

CompareDone ==
    /\ m_pc = "compare"
    /\ m_k = Len(m_visits[1].order)
    /\ m_pc' = "print"
    /\ m_k' = 0
    /\ UNCHANGED <<inputs, runs, app, m_visits, m_i, result_users, m_out, m_error>>

\* one iteration of "for user in result_users: print(user)"
PrintUser ==
    /\ m_pc = "print"
    /\ m_k < Len(result_users)
    /\ m_k' = m_k + 1
    /\ m_out' = m_out \o result_users[m_k + 1] \o LF
    /\ UNCHANGED <<inputs, runs, app, m_pc, m_visits, m_i, result_users, m_error>>

PrintDone ==
    /\ m_pc = "print"
    /\ m_k = Len(result_users)
    /\ m_pc' = "done"
    /\ UNCHANGED <<inputs, runs, app, m_visits, m_i, m_k, result_users, m_out, m_error>>

RowAQ == << <<97>>, <<113>>, <<116>> >>                   \* a,q,t
RowBP == << <<98>>, <<112>>, <<116>> >>                   \* b,p,t
RowBQ == << <<98>>, <<113>>, <<116>> >>                   \* b,q,t
Header == << <<117>>, <<112>>, <<116>> >>                 \* u,p,t

MainPyRows == {RowAP, RowAQ, RowBP, RowBQ, RowAQws, RowShort}

\* a file without any row, or a header row and up to MaxRows rows
WithHeader(U) == {<<>>} \cup {<<Header>> \o rows : rows \in SeqsUpTo(U, MaxRows)}

InitMainPy ==
    /\ exists1 \in BOOLEAN
    /\ exists2 \in BOOLEAN
    /\ day1 \in (IF exists1 THEN WithHeader(MainPyRows) ELSE {<<>>})
    /\ day2 \in (IF exists2 THEN WithHeader(MainPyRows) ELSE {<<>>})
    /\ args_output = "stdout"
    /\ AppStart
    /\ FirstRun
    /\ MainPyAt("load1")

NextMainPy ==
    \/ SkipHeader \/ LoadRow \/ LoadDone
    \/ CompareUser \/ CompareDone \/ PrintUser \/ PrintDone

SpecMainPy == InitMainPy /\ [][NextMainPy]_vars


(***************************************************************************)
(* What the inputs say, independently of the passes                        *)
(***************************************************************************)
Range(seq) == {seq[i] : i \in DOMAIN seq}

WellFormed(rows) == \A i \in DOMAIN rows : Len(rows[i]) = 3

IsBlank(row) == Len(row) = 3 /\ (strip(row[1]) = <<>> \/ strip(row[2]) = <<>>)

\* The (user_id, product_id) pairs, trimmed, of the non-blank three-field rows.
Visits(rows) ==
    {<<strip(r[1]), strip(r[2])>> : r \in {x \in Range(rows) : Len(x) = 3 /\ ~IsBlank(x)}}

Users(rows) == {v[1] : v \in Visits(rows)}

ProductsOf(rows, u) == {v[2] : v \in {w \in Visits(rows) : w[1] = u}}

Prefix(rows, n) == SubSeq(rows, 1, n)

RECURSIVE WithoutBlank(_)
WithoutBlank(rows) ==
    IF rows = <<>> THEN <<>>
    ELSE IF IsBlank(Head(rows)) THEN WithoutBlank(Tail(rows))
    ELSE <<Head(rows)>> \o WithoutBlank(Tail(rows))

InsertAt(rows, pos, row) ==
    SubSeq(rows, 1, pos) \o <<row>> \o SubSeq(rows, pos + 1, Len(rows))

\* Every sequence obtained by inserting, at any position, one more copy of a
\* row that rows already holds.  (A file that already holds duplicates is
\* itself an input, so several copies are reached by repeated insertion.)
WithDuplicate(rows) ==
    {InsertAt(rows, pos, r) : pos \in 0..Len(rows), r \in Range(rows)}

\* Index of the first row without three fields (0: none).
FirstBad(rows) ==
    IF WellFormed(rows) THEN 0
    ELSE CHOOSE k \in DOMAIN rows :
            Len(rows[k]) # 3 /\ \A j \in 1..(k - 1) : Len(rows[j]) = 3

\* 1-based number of the line of the file on which row k starts.
RECURSIVE StartLine(_, _)
StartLine(rows, k) ==
    IF k <= 1 THEN 1 ELSE StartLine(rows, k - 1) + NLines(rows[k - 1])

\* find_target_users has just returned: the day-two stream is exhausted.
PassDone == pc = "output"

(***************************************************************************)
(* Claims about app.py                                                     *)
(***************************************************************************)

\* C1: completeness.  When every row of both files has three fields and the
\* day-two stream is exhausted, every user with a non-blank day-one row and a
\* non-blank day-two row whose trimmed product is not among that user's
\* day-one products is in the result set.
C1_Completeness ==
    (PassDone /\ WellFormed(day1) /\ WellFormed(day2)) =>
        \A v \in Visits(day2) :
            (v[1] \in Users(day1) /\ v[2] \notin ProductsOf(day1, v[1]))
                => v[1] \in result

\* C1 witness: the pass is finished, one user qualified and another user
\* present on both days did not.
C1_Witness ==
    /\ pc = "output"
    /\ result # {}
    /\ \E u \in Users(day1) \cap Users(day2) : u \notin result

\* C2: soundness, in every state.  Each user in the result set is a key of
\* the day-one index and one of the day-two rows already read for that user
\* has a product absent from the user's day-one products; a user absent from
\* day one, or all of whose day-two products are day-one products, is not in it.
C2_Soundness ==
    \A u \in result :
        /\ u \in DOMAIN user_to_products
        /\ u \in Users(day1)
        /\ \E v \in Visits(Prefix(day2, i2)) :
               /\ v[1] = u
               /\ v[2] \notin user_to_products[u]
               /\ v[2] \notin ProductsOf(day1, u)
        /\ ~(ProductsOf(day2, u) \subseteq ProductsOf(day1, u))

\* C2 witness: mid-stream, a user is already in the result while a day-two
\* user unknown to day one has been read and left out.
C2_Witness ==
    /\ pc = "day2"
    /\ i2 = 2
    /\ result # {}
    /\ \E u \in Users(Prefix(day2, i2)) : u \notin Users(day1)

\* C3: a row without three fields is never skipped: the pass reading it ends
\* the run at once with an error naming the file and the 1-based line number
\* of that first offending row, no later row is read and nothing is written.
C3_AbortNamesLine ==
    \A n \in {1, 2} :
        LET rows == IF n = 1 THEN day1 ELSE day2
            read == IF n = 1 THEN i1 ELSE i2
        IN  ~WellFormed(Prefix(rows, read)) =>
                /\ pc = "exit"
                /\ exit_code # 0
                /\ read = FirstBad(rows)
                /\ error.kind = "format"
                /\ error.file = n
                /\ error.line = StartLine(rows, FirstBad(rows))
                /\ out = <<>>
                /\ hout = "unopened"

\* What the code does report in C3's case: the index of the row among the
\* records csv.reader has yielded, which is the line number only while no
\* earlier record spans several lines.
AbortNamesRecord ==
    \A n \in {1, 2} :
        LET rows == IF n = 1 THEN day1 ELSE day2
            read == IF n = 1 THEN i1 ELSE i2
        IN  ~WellFormed(Prefix(rows, read)) =>
                /\ pc = "exit"
                /\ exit_code # 0
                /\ read = FirstBad(rows)
                /\ error = ValueError(n, FirstBad(rows), rows[FirstBad(rows)])
                /\ out = <<>>
                /\ hout = "unopened"
                /\ (n = 1 => i2 = 0 /\ h2 = "unopened")

AbortNamesRecord_Witness ==
    /\ error.kind = "format" /\ error.file = 2 /\ error.line = StartLine(day2, i2)
    /\ i2 = 2

\* C4: three-field rows that are blank after trimming are dropped silently
\* in both passes: no error, nothing added to the index or the result, and
\* the outcome is that of the same inputs with those rows removed.
C4_BlankRowsDropped ==
    /\ (pc = "day1" /\ i1 > 0 /\ IsBlank(day1[i1])) =>
           /\ error = NoError
           /\ user_to_products = build_day1_index(Prefix(day1, i1 - 1)).val
    /\ (pc = "day2" /\ i2 > 0 /\ IsBlank(day2[i2])) =>
           /\ error = NoError
           /\ result = find_target_users(user_to_products, Prefix(day2, i2 - 1)).val
    /\ PassDone =>
           /\ user_to_products = build_day1_index(WithoutBlank(day1)).val
           /\ <<>> \notin DOMAIN user_to_products
           /\ \A u \in DOMAIN user_to_products : <<>> \notin user_to_products[u]
           /\ result = find_target_users(build_day1_index(WithoutBlank(day1)).val,
                                         WithoutBlank(day2)).val

\* C4 witness: a finished pass over inputs that hold a blank-user row on day
\* one and a blank-product row on day two for a user of day one.
C4_Witness ==
    /\ pc = "output"
    /\ \E r \in Range(day1) : IsBlank(r) /\ strip(r[1]) = <<>>
    /\ \E r \in Range(day2) :
           IsBlank(r) /\ strip(r[2]) = <<>> /\ strip(r[1]) \in DOMAIN user_to_products
    /\ DOMAIN user_to_products # {}

\* C5: further copies of rows already present, inserted anywhere in either
\* well-formed file, change neither the day-one index nor the result set.
C5_DuplicatesIgnored ==
    PassDone =>
        /\ \A d1 \in WithDuplicate(day1) :
               build_day1_index(d1) = [raised |-> FALSE, line |-> 0, val |-> user_to_products]
        /\ \A d2 \in WithDuplicate(day2) :
               find_target_users(user_to_products, d2)
                   = [raised |-> FALSE, line |-> 0, val |-> result]

\* C5 witness: a finished pass with a non-empty result where day two already
\* holds the same row twice and day one holds a row to copy.
C5_Witness ==
    /\ pc = "output"
    /\ result # {}
    /\ day1 # <<>>
    /\ Len(day2) = 2
    /\ day2[1] = day2[2]

\* C6: phase order.  Both existence checks precede any read; no day-two row
\* is read before every day-one row is consumed and the day-one handle is
\* released; nothing is written before day two is exhausted and released.
C6_PhaseOrder ==
    /\ (h1 # "unopened" \/ h2 # "unopened" \/ i1 > 0 \/ i2 > 0) => checked = {1, 2}
    /\ (h2 # "unopened" \/ i2 > 0) => (i1 = Len(day1) /\ h1 = "closed")
    /\ (hout # "unopened" \/ out # <<>>) =>
           (i2 = Len(day2) /\ h2 = "closed" /\ i1 = Len(day1) /\ h1 = "closed")

\* C6 witness: output has been written after both files were read.
C6_Witness == out # <<>> /\ i1 = 2 /\ i2 = 2

\* The pass of find_target_users without the short-circuit of lines 91-93.
CompareRowNoShortCircuit(day1_index, res, row) ==
    LET user_id == strip(row[1])
        product_id == strip(row[2])
    IN  IF user_id = <<>> \/ product_id = <<>> THEN res
        ELSE IF user_id \notin DOMAIN day1_index THEN res
        ELSE IF product_id \notin day1_index[user_id] THEN res \cup {user_id}
        ELSE res

RECURSIVE FindNoShortCircuit(_, _, _, _)
FindNoShortCircuit(day1_index, rows, n, res) ==
    IF n > Len(rows) \/ Len(rows[n]) # 3 THEN res
    ELSE FindNoShortCircuit(day1_index, rows, n + 1,
                            CompareRowNoShortCircuit(day1_index, res, rows[n]))

\* C9: after every day-two row, and at the end, the result set equals that of
\* the same pass run without the short-circuit.
C9_ShortCircuitNeutral ==
    (pc = "day2" \/ PassDone) =>
        result = FindNoShortCircuit(user_to_products, Prefix(day2, i2), 1, {})

\* C9 witness: the row just read belongs to a user who was already in the
\* result, so the short-circuit was taken.
C9_Witness ==
    /\ pc = "day2"
    /\ i2 = 2
    /\ Len(day2[2]) = 3
    /\ strip(day2[2][1]) \in FindNoShortCircuit(user_to_products, Prefix(day2, 1), 1, {})

\* The lines of a text: its maximal runs without a line feed, each ended by
\* one (a last run without line feed counts as a line too).
RECURSIVE SplitLines(_, _)
SplitLines(text, cur) ==
    IF text = <<>> THEN (IF cur = <<>> THEN <<>> ELSE <<cur>>)
    ELSE IF Head(text) = 10 THEN <<cur>> \o SplitLines(Tail(text), <<>>)
    ELSE SplitLines(Tail(text), Append(cur, Head(text)))

StrictlyAscending(seq) ==
    \A i, j \in DOMAIN seq : i < j => StrLess(seq[i], seq[j])

RECURSIVE Records(_)
Records(seq) ==
    IF seq = <<>> THEN <<>> ELSE Head(seq) \o LF \o Records(Tail(seq))

\* C7: write_output emits exactly the members of the result set, each once,
\* one per line, in strictly ascending code-point order, whatever the order
\* in which the set yields them.
C7_OnePerLineAscending ==
    exit_code = 0 =>
        LET lines == SplitLines(out, <<>>)
        IN  /\ Range(lines) = result
            /\ Len(lines) = Cardinality(result)
            /\ StrictlyAscending(lines)

\* What write_output does emit: the members in strictly ascending order, each
\* once and each followed by a line feed.
AscendingRecordsWritten ==
    exit_code = 0 =>
        \E seq \in IterationOrders(result) :
            StrictlyAscending(seq) /\ out = Records(seq)

\* All five ids were added to the result in descending order and written.
AscendingRecordsWritten_Witness ==
    /\ exit_code = 0
    /\ Cardinality(result) = 5
    /\ \A i, j \in DOMAIN day2 : i < j => StrLess(strip(day2[j][1]), strip(day2[i][1]))

\* C8: a second run on the same inputs ends as the first did: the same
\* output text and exit status, or the same error at the same file and line.
C8_SecondRunAgrees == (run = 2 /\ pc = "exit") => Outcome = first

\* C8 witness: the second run has ended after writing two users.
C8_Witness == run = 2 /\ pc = "exit" /\ Cardinality(result) = 2 /\ out # <<>>

\* C8 witness of the error case: both runs ended with a format error.
C8_ErrorWitness == run = 2 /\ pc = "exit" /\ error.kind = "format" /\ error.line = 2

\* C10's condition on the files: a header row, then rows of three fields
\* whose user_id and product_id are non-empty without outer white space.
CleanRow(row) ==
    /\ Len(row) = 3
    /\ row[1] # <<>> /\ strip(row[1]) = row[1]
    /\ row[2] # <<>> /\ strip(row[2]) = row[2]

HeaderThenClean(rows) ==
    rows # <<>> /\ \A i \in 2..Len(rows) : CleanRow(rows[i])

\* C10: on such files the users main.py prints are the users app.py's two
\* passes return for the files without their header rows.
C10_SameUsers ==
    (m_pc = "done" /\ HeaderThenClean(day1) /\ HeaderThenClean(day2)) =>
        /\ Range(SplitLines(m_out, <<>>))
               = find_target_users(build_day1_index(Tail(day1)).val, Tail(day2)).val
        /\ ~build_day1_index(Tail(day1)).raised
        /\ ~find_target_users(build_day1_index(Tail(day1)).val, Tail(day2)).raised

\* C10 witness: main.py printed two users, not in ascending order.
C10_Witness ==
    /\ m_pc = "done"
    /\ HeaderThenClean(day1) /\ HeaderThenClean(day2)
    /\ Len(result_users) = 2
    /\ StrLess(result_users[2], result_users[1])
    /\ m_out # <<>>

====
